---- MODULE Spec2Model ----
(***************************************************************************)
(* A model of the library CLI of src/mod.py: the three tables of           *)
(* library.db (books, users, loan_history), the Admin and Member handlers  *)
(* that read and write them, and the login / menu loop of the entry point  *)
(* that calls them.  The database file outlives a run of the program, so a *)
(* behaviour is a sequence of runs (login, menu choices, exit) over the    *)
(* same tables.                                                            *)
(***************************************************************************)
EXTENDS Integers, Sequences, FiniteSets, TLC

\* ------------------------------------------------------------------ bounds
\* The model is explored under two sets of bounds and inputs.  The general one
\* has two people and two books, and every operation on any of them.  The other
\* one has a single person and a catalog of up to four books, so that a member
\* with as many loans as allowed still finds a book on the shelf; there the
\* admin types only ids of no book at the remove prompt.  In both the admin
\* types the new books in a fixed order (any book already in the catalog may
\* be typed again).  A third specification is about the search alone, over
\* catalogs of longer titles.
\* Largest primary key the books table may hand out.
MaxBookId == 2
LimitBookId == 4
\* Largest number of closed (returned) loan_history rows.
MaxClosed == 1
LimitClosed == 1

\* Books in a catalog of the search specification.
MaxCatalog == 3

\* ------------------------------------------------------- program constants
\* Member.can_borrow: `count < 3`.
MaxOpenLoans == 3

\* --------------------------------------------------------------- the inputs
\* Text is a sequence of characters, each a string of its own; a character
\* outside ASCII is written as its code point.
CapitalSigma == "U+03A3"
SmallSigma == "U+03C3"
FinalSigma == "U+03C2"
CapitalAlpha == "U+0391"
SmallAlpha == "U+03B1"
SuperscriptTwo == "U+00B2"

TitleInputs == { <<"K", "i">>, <<"k", "i">> }
AuthorInputs == { <<"L">>, <<"l">> }
\* What the user types at a name prompt (before .strip()).
NameInputs == { <<"a">>, <<"b">>, <<" ", "a">>, <<"b", " ">> }
\* What the user types at the login and menu prompts (after .strip()).
ChoiceInputs == { "0", "1", "2", "3", "x" }
\* What the user types at the keyword prompt of a search.
KeywordInputs == { <<"K">>, <<"z">> }

\* The texts of the search specification: the three books of the catalog
\* "The King's Men" / "A. Smith", "Kingdom" / "B. Lee", "Other" / "C. King",
\* a book with a Greek title, and a book no keyword below is part of.
KingsMen == <<"T", "h", "e", " ", "K", "i", "n", "g", "'", "s", " ", "M", "e", "n">>
ASmith == <<"A", ".", " ", "S", "m", "i", "t", "h">>
Kingdom == <<"K", "i", "n", "g", "d", "o", "m">>
BLee == <<"B", ".", " ", "L", "e", "e">>
Other == <<"O", "t", "h", "e", "r">>
CKing == <<"C", ".", " ", "K", "i", "n", "g">>
AlphaSigma == <<CapitalAlpha, CapitalSigma>>
SearchShelf ==
    << <<KingsMen, ASmith>>, <<Kingdom, BLee>>, <<Other, CKing>>,
       <<AlphaSigma, BLee>>, <<Other, BLee>> >>
SearchKeywords ==
    { <<"k", "i", "n", "g">>, <<"K", "I", "N", "G">>, <<"L", "E", "E">>,
      <<CapitalSigma>>, <<SmallSigma>>, <<>>, <<"z">> }
Searching == [keywords |-> SearchKeywords]

DigitChars == <<"0", "1", "2", "3", "4", "5", "6", "7", "8", "9">>
\* Characters that str.isdigit() accepts and int() does not.
OtherDigitChars == { SuperscriptTwo }
\* What the user types at a book-id prompt: the ids `ids` as one digit each,
\* an id with a leading zero, lines that are no number, and a line of a digit
\* that is no decimal digit.
IdInputs(ids) ==
    { <<DigitChars[d + 1]>> : d \in ids }
        \cup { <<>>, <<"x">>, <<"1", "x">>, <<"0", "0">>, <<SuperscriptTwo>> }

General ==
    [maxBookId |-> MaxBookId, maxClosed |-> MaxClosed,
     names |-> NameInputs,
     titles |-> TitleInputs, authors |-> { <<"L">> },
     removeIds |-> 0..MaxBookId, borrowIds |-> 0..MaxBookId,
     returnIds |-> 0..MaxBookId, keywords |-> KeywordInputs,
     order |-> << <<<<"K", "i">>, <<"L">>>>, <<<<"k", "i">>, <<"L">>>> >>]
Limit ==
    [maxBookId |-> LimitBookId, maxClosed |-> LimitClosed,
     names |-> { <<"a">>, <<" ", "a">> },
     titles |-> TitleInputs, authors |-> AuthorInputs,
     removeIds |-> {0, LimitBookId + 1}, borrowIds |-> 0..LimitBookId,
     returnIds |-> 0..LimitBookId, keywords |-> { <<"K">> },
     order |-> << <<<<"K", "i">>, <<"L">>>>, <<<<"k", "i">>, <<"L">>>>,
                  <<<<"K", "i">>, <<"l">>>>, <<<<"k", "i">>, <<"l">>>> >>]

\* ------------------------------------------------------------- the messages
MsgNone == ""
MsgAddDup == "Buku sudah ada di database."
MsgAddOk == "Buku berhasil ditambahkan."
MsgRemoveLoaned == "Buku sedang dipinjam, tidak bisa dihapus."
MsgRemoveOk == "Buku berhasil dihapus."
MsgRemoveMissing == "Buku tidak ditemukan."
MsgBorrowMax == "Anda sudah meminjam maksimal 3 buku."
MsgBorrowUnavailable == "Buku tidak tersedia untuk dipinjam."
MsgBorrowOk == "Buku berhasil dipinjam."
MsgReturnNone == "Tidak ada peminjaman aktif untuk buku ini."
MsgReturnOk == "Buku berhasil dikembalikan."
MsgSearchNone == "Buku tidak ditemukan."
MsgSearchListed == "{book.id}. {book.title} by {book.author} (Available: {book.available})"
MsgValueError == "ValueError: invalid literal for int() with base 10"
MsgLoginInvalid == "Pilihan tidak valid. Silakan pilih kembali."
MsgMenuInvalid == "Menu tidak valid. Silakan pilih kembali."
MsgIdInvalid == "ID harus berupa angka. Silakan coba lagi."
MsgBye == "Terima kasih telah menggunakan sistem perpustakaan."

\* ------------------------------------------------------------------- state
VARIABLES
    books,      \* table books: id -> [title, author, available]
    users,      \* table users: row id i is users[i] = [name, role]
    loans,      \* table loan_history: row id i is loans[i]
    clock,      \* the number of datetime.utcnow() readings so far
    pc,         \* where the entry point waits for input
    user,       \* the Admin() / Member(user_id) object of this run
    committed,  \* <<books, users, loans>> as last committed to library.db
    call,       \* the handler the last menu choice invoked, with its arguments
    msg,        \* the last line printed
    trip        \* (history) the last borrow while only its return follows

vars == <<books, users, loans, clock, committed, pc, user, call, msg, trip>>
db == <<books, users, loans>>

\* return_date of an open loan (SQL NULL).
None == <<>>

NoUser == [role |-> "none"]
NoCall == [op |-> "none"]

\* ----------------------------------------------------------- text helpers
IsSpace(c) == c = " "

RECURSIVE LStrip(_)
LStrip(s) == IF s # <<>> /\ IsSpace(Head(s)) THEN LStrip(Tail(s)) ELSE s

RECURSIVE RStrip(_)
RStrip(s) ==
    IF s # <<>> /\ IsSpace(s[Len(s)]) THEN RStrip(SubSeq(s, 1, Len(s) - 1)) ELSE s

\* str.strip()
Strip(s) == LStrip(RStrip(s))

IsDecimalChar(c) == \E d \in 1..Len(DigitChars) : DigitChars[d] = c
IsDigitChar(c) == IsDecimalChar(c) \/ c \in OtherDigitChars
DigitVal(c) == (CHOOSE d \in 1..Len(DigitChars) : DigitChars[d] = c) - 1

\* str.isdigit(): non-empty and every character a digit
IsDigit(s) == s # <<>> /\ \A i \in 1..Len(s) : IsDigitChar(s[i])

\* int(s) returns a value (it raises ValueError otherwise); of the strings
\* that pass isdigit() these are the ones of decimal digits only
IntParses(s) == s # <<>> /\ \A i \in 1..Len(s) : IsDecimalChar(s[i])

\* int(s) of a digit string
RECURSIVE ToInt(_)
ToInt(s) ==
    IF s = <<>> THEN 0
    ELSE 10 * ToInt(SubSeq(s, 1, Len(s) - 1)) + DigitVal(s[Len(s)])

\* The letters of the model's alphabet that have an upper and a lower case, as
\* <<upper, lower>>; capital sigma is treated apart.
CasePairs ==
    { <<"K", "k">>, <<"I", "i">>, <<"N", "n">>, <<"G", "g">>, <<"L", "l">>,
      <<"T", "t">>, <<"M", "m">>, <<"A", "a">>, <<"S", "s">>, <<"B", "b">>,
      <<"O", "o">>, <<"C", "c">>, <<"D", "d">>, <<"E", "e">>, <<"H", "h">>,
      <<"R", "r">>, <<"Z", "z">>, <<CapitalAlpha, SmallAlpha>> }
IsCased(c) ==
    \/ \E p \in CasePairs : c = p[1] \/ c = p[2]
    \/ c \in { CapitalSigma, SmallSigma, FinalSigma }
\* characters str.lower() skips when it looks for the letters around a sigma
IsCaseIgnorable(c) == c \in { "'", "." }

\* str.lower() of capital sigma at position i of s: the final form when a
\* letter comes before it and none after it, case-ignorable characters skipped
IsFinalSigma(s, i) ==
    /\ \E j \in 1..(i - 1) :
          IsCased(s[j]) /\ \A k \in (j + 1)..(i - 1) : IsCaseIgnorable(s[k])
    /\ ~\E j \in (i + 1)..Len(s) :
          IsCased(s[j]) /\ \A k \in (i + 1)..(j - 1) : IsCaseIgnorable(s[k])

LowerChar(c) ==
    IF \E p \in CasePairs : p[1] = c
    THEN (CHOOSE p \in CasePairs : p[1] = c)[2]
    ELSE c

\* str.lower()
Lower(s) ==
    [i \in 1..Len(s) |->
        IF s[i] = CapitalSigma
        THEN IF IsFinalSigma(s, i) THEN FinalSigma ELSE SmallSigma
        ELSE LowerChar(s[i])]

\* `k in t` of two strings
Contains(k, t) ==
    \E i \in 0..(Len(t) - Len(k)) : SubSeq(t, i + 1, i + Len(k)) = k

\* ------------------------------------------------------------ the queries
SetMax(S) == CHOOSE x \in S : \A y \in S : y <= x
SetMin(S) == CHOOSE x \in S : \A y \in S : x <= y

\* The rowid SQLite gives a new row of a table with an INTEGER PRIMARY KEY:
\* one more than the largest rowid in the table.
NextRowId(ids) == IF ids = {} THEN 1 ELSE SetMax(ids) + 1

\* session.query(Book).filter_by(title=title, author=author)
BooksTitled(title, author) ==
    { id \in DOMAIN books : books[id].title = title /\ books[id].author = author }

\* session.query(Book).filter_by(id=book_id).first() finds a row
BookExists(book_id) == book_id \in DOMAIN books

\* session.query(UserModel).filter_by(name=name)
UsersNamed(name) == { i \in 1..Len(users) : users[i].name = name }

\* session.query(LoanHistory).filter_by(user_id=user_id, return_date=None)
OpenLoansOf(user_id) ==
    { i \in 1..Len(loans) : loans[i].user_id = user_id /\ loans[i].return_date = None }

\* ...filter_by(user_id=user_id, book_id=book_id, return_date=None)
OpenLoansOfFor(user_id, book_id) ==
    { i \in OpenLoansOf(user_id) : loans[i].book_id = book_id }

\* The same query run in a Session of its own (Member.can_borrow): it sees
\* the rows committed to library.db.
CommittedOpenLoansOf(user_id) ==
    { i \in 1..Len(committed[3]) :
        committed[3][i].user_id = user_id /\ committed[3][i].return_date = None }

\* (mutant) the limit compared with <= : a fourth loan is let through
can_borrow_le(user_id) == Cardinality(CommittedOpenLoansOf(user_id)) <= MaxOpenLoans

\* Member.can_borrow
can_borrow(user_id) == Cardinality(CommittedOpenLoansOf(user_id)) < MaxOpenLoans

\* session.commit(): what the session wrote becomes the content of library.db
commit == committed' = <<books', users', loans'>>

\* ------------------------------------------------------------ the search
\* session.query(Book).all(): the rows of books in rowid order
RECURSIVE RowsFrom(_)
RowsFrom(ids) ==
    IF ids = {} THEN <<>>
    ELSE LET id == SetMin(ids)
         IN <<[id |-> id, title |-> books[id].title, author |-> books[id].author,
               available |-> books[id].available]>> \o RowsFrom(ids \ {id})

\* (mutant) the snapshot leaves out the books that are on loan
load_from_db_available_only ==
    RowsFrom({ id \in DOMAIN books : books[id].available })

\* BookCache.load_from_db: the value of self.books after it
load_from_db == RowsFrom(DOMAIN books)

\* BookCache.search over self.books = cache
RECURSIVE search(_, _)
search(cache, keyword) ==
    IF cache = <<>> THEN <<>>
    ELSE LET book == Head(cache)
             hit == \/ Contains(Lower(keyword), Lower(book.title))
                    \/ Contains(Lower(keyword), Lower(book.author))
         IN (IF hit THEN <<book>> ELSE <<>>) \o search(Tail(cache), keyword)

\* ----------------------------------------------------------- the handlers
\* Each handler is the whole method: its queries, its writes, its commit and
\* the line it prints.

\* (mutant) the duplicate query is left out
add_book_no_check(title, author) ==
    /\ books' = [id \in DOMAIN books \cup {NextRowId(DOMAIN books)} |->
                    IF id \in DOMAIN books THEN books[id]
                    ELSE [title |-> title, author |-> author, available |-> TRUE]]
    /\ msg' = MsgAddOk
    /\ commit

\* Admin.add_book
add_book(title, author) ==
    IF BooksTitled(title, author) # {}
    THEN /\ msg' = MsgAddDup
         /\ UNCHANGED <<books, committed>>
    ELSE /\ books' = [id \in DOMAIN books \cup {NextRowId(DOMAIN books)} |->
                        IF id \in DOMAIN books THEN books[id]
                        ELSE [title |-> title, author |-> author, available |-> TRUE]]
         /\ msg' = MsgAddOk
         /\ commit

\* (mutant) the availability test is left out
remove_book_no_check(book_id) ==
    IF BookExists(book_id)
    THEN /\ books' = [id \in DOMAIN books \ {book_id} |-> books[id]]
         /\ msg' = MsgRemoveOk
         /\ commit
    ELSE /\ msg' = MsgRemoveMissing
         /\ UNCHANGED <<books, committed>>

\* Admin.remove_book
remove_book(book_id) ==
    IF BookExists(book_id)
    THEN IF ~books[book_id].available
         THEN /\ msg' = MsgRemoveLoaned
              /\ UNCHANGED <<books, committed>>
         ELSE /\ books' = [id \in DOMAIN books \ {book_id} |-> books[id]]
              /\ msg' = MsgRemoveOk
              /\ commit
    ELSE /\ msg' = MsgRemoveMissing
         /\ UNCHANGED <<books, committed>>

\* (mutant) only `not book` is tested, not `not book.available`
borrow_book_ignores_flag(user_id, book_id) ==
    IF ~can_borrow(user_id)
    THEN /\ msg' = MsgBorrowMax
         /\ UNCHANGED <<books, loans, clock, committed>>
    ELSE IF ~BookExists(book_id)
    THEN /\ msg' = MsgBorrowUnavailable
         /\ UNCHANGED <<books, loans, clock, committed>>
    ELSE /\ clock' = clock + 1
         /\ loans' = Append(loans, [user_id |-> user_id, book_id |-> book_id,
                                    loan_date |-> clock', return_date |-> None])
         /\ books' = [books EXCEPT ![book_id].available = FALSE]
         /\ msg' = MsgBorrowOk
         /\ commit

\* (mutant) the book is marked as taken before the limit is tested
borrow_book_marks_first(user_id, book_id) ==
    IF ~can_borrow(user_id)
    THEN /\ msg' = MsgBorrowMax
         /\ books' = IF BookExists(book_id)
                     THEN [books EXCEPT ![book_id].available = FALSE]
                     ELSE books
         /\ UNCHANGED <<loans, clock, committed>>
    ELSE IF ~BookExists(book_id) \/ ~books[book_id].available
    THEN /\ msg' = MsgBorrowUnavailable
         /\ UNCHANGED <<books, loans, clock, committed>>
    ELSE /\ clock' = clock + 1
         /\ loans' = Append(loans, [user_id |-> user_id, book_id |-> book_id,
                                    loan_date |-> clock', return_date |-> None])
         /\ books' = [books EXCEPT ![book_id].available = FALSE]
         /\ msg' = MsgBorrowOk
         /\ commit

\* (mutant) the new row and the flag are written but not committed
borrow_book_no_commit(user_id, book_id) ==
    IF ~can_borrow(user_id)
    THEN /\ msg' = MsgBorrowMax
         /\ UNCHANGED <<books, loans, clock, committed>>
    ELSE IF ~BookExists(book_id) \/ ~books[book_id].available
    THEN /\ msg' = MsgBorrowUnavailable
         /\ UNCHANGED <<books, loans, clock, committed>>
    ELSE /\ clock' = clock + 1
         /\ loans' = Append(loans, [user_id |-> user_id, book_id |-> book_id,
                                    loan_date |-> clock', return_date |-> None])
         /\ books' = [books EXCEPT ![book_id].available = FALSE]
         /\ msg' = MsgBorrowOk
         /\ UNCHANGED committed

\* (mutant) the book is looked up before the limit is tested
borrow_book_checks_book_first(user_id, book_id) ==
    IF ~BookExists(book_id) \/ ~books[book_id].available
    THEN /\ msg' = MsgBorrowUnavailable
         /\ UNCHANGED <<books, loans, clock, committed>>
    ELSE IF ~can_borrow(user_id)
    THEN /\ msg' = MsgBorrowMax
         /\ UNCHANGED <<books, loans, clock, committed>>
    ELSE /\ clock' = clock + 1
         /\ loans' = Append(loans, [user_id |-> user_id, book_id |-> book_id,
                                    loan_date |-> clock', return_date |-> None])
         /\ books' = [books EXCEPT ![book_id].available = FALSE]
         /\ msg' = MsgBorrowOk
         /\ commit

\* Member.borrow_book
borrow_book(user_id, book_id) ==
    IF ~can_borrow(user_id)
    THEN /\ msg' = MsgBorrowMax
         /\ UNCHANGED <<books, loans, clock, committed>>
    ELSE IF ~BookExists(book_id) \/ ~books[book_id].available
    THEN /\ msg' = MsgBorrowUnavailable
         /\ UNCHANGED <<books, loans, clock, committed>>
    ELSE /\ clock' = clock + 1
         /\ loans' = Append(loans, [user_id |-> user_id, book_id |-> book_id,
                                    loan_date |-> clock', return_date |-> None])
         /\ books' = [books EXCEPT ![book_id].available = FALSE]
         /\ msg' = MsgBorrowOk
         /\ commit

\* (mutant) the query filters on book_id only, not on user_id
return_book_any_user(user_id, book_id) ==
    LET found == { i \in 1..Len(loans) :
                     loans[i].book_id = book_id /\ loans[i].return_date = None }
    IN IF found = {}
       THEN /\ msg' = MsgReturnNone
            /\ UNCHANGED <<books, loans, clock, committed>>
       ELSE /\ clock' = clock + 1
            /\ loans' = [loans EXCEPT ![SetMin(found)].return_date = <<clock'>>]
            /\ books' = IF BookExists(book_id)
                        THEN [books EXCEPT ![book_id].available = TRUE]
                        ELSE books
            /\ msg' = MsgReturnOk
            /\ commit

\* (mutant) the query filters on user_id only, not on book_id
return_book_any_book(user_id, book_id) ==
    IF OpenLoansOf(user_id) = {}
    THEN /\ msg' = MsgReturnNone
         /\ UNCHANGED <<books, loans, clock, committed>>
    ELSE /\ clock' = clock + 1
         /\ loans' = [loans EXCEPT ![SetMin(OpenLoansOf(user_id))].return_date = <<clock'>>]
         /\ books' = IF BookExists(book_id)
                     THEN [books EXCEPT ![book_id].available = TRUE]
                     ELSE books
         /\ msg' = MsgReturnOk
         /\ commit

\* (mutant) the query does not filter on return_date=None
return_book_any_row(user_id, book_id) ==
    LET found == { i \in 1..Len(loans) :
                     loans[i].user_id = user_id /\ loans[i].book_id = book_id }
    IN IF found = {}
       THEN /\ msg' = MsgReturnNone
            /\ UNCHANGED <<books, loans, clock, committed>>
       ELSE /\ clock' = clock + 1
            /\ loans' = [loans EXCEPT ![SetMin(found)].return_date = <<clock'>>]
            /\ books' = IF BookExists(book_id)
                        THEN [books EXCEPT ![book_id].available = TRUE]
                        ELSE books
            /\ msg' = MsgReturnOk
            /\ commit

\* (mutant) the row is closed but the book is not put back on the shelf
return_book_keeps_flag(user_id, book_id) ==
    IF OpenLoansOfFor(user_id, book_id) = {}
    THEN /\ msg' = MsgReturnNone
         /\ UNCHANGED <<books, loans, clock, committed>>
    ELSE LET loan == SetMin(OpenLoansOfFor(user_id, book_id))
         IN /\ clock' = clock + 1
            /\ loans' = [loans EXCEPT ![loan].return_date = <<clock'>>]
            /\ books' = books
            /\ msg' = MsgReturnOk
            /\ commit

\* (mutant) the row is deleted from the ledger instead of being closed
return_book_deletes_row(user_id, book_id) ==
    IF OpenLoansOfFor(user_id, book_id) = {}
    THEN /\ msg' = MsgReturnNone
         /\ UNCHANGED <<books, loans, clock, committed>>
    ELSE LET loan == SetMin(OpenLoansOfFor(user_id, book_id))
         IN /\ clock' = clock + 1
            /\ loans' = [i \in 1..(Len(loans) - 1) |->
                            IF i < loan THEN loans[i] ELSE loans[i + 1]]
            /\ books' = IF BookExists(book_id)
                        THEN [books EXCEPT ![book_id].available = TRUE]
                        ELSE books
            /\ msg' = MsgReturnOk
            /\ commit

\* Member.return_book
return_book(user_id, book_id) ==
    IF OpenLoansOfFor(user_id, book_id) = {}
    THEN /\ msg' = MsgReturnNone
         /\ UNCHANGED <<books, loans, clock, committed>>
    ELSE LET loan == SetMin(OpenLoansOfFor(user_id, book_id))
         IN /\ clock' = clock + 1
            /\ loans' = [loans EXCEPT ![loan].return_date = <<clock'>>]
            /\ books' = IF BookExists(book_id)
                        THEN [books EXCEPT ![book_id].available = TRUE]
                        ELSE books
            /\ msg' = MsgReturnOk
            /\ commit

\* (mutant) the lookup filters on name and role
get_or_create_user_by_role(name, role) ==
    IF { i \in UsersNamed(name) : users[i].role = role } = {}
    THEN /\ users' = Append(users, [name |-> name, role |-> role])
         /\ commit
    ELSE UNCHANGED <<users, committed>>

\* get_or_create_user; the row it returns is the one named `name` afterwards
get_or_create_user(name, role) ==
    IF UsersNamed(name) = {}
    THEN /\ users' = Append(users, [name |-> name, role |-> role])
         /\ commit
    ELSE UNCHANGED <<users, committed>>

\* the id of the row get_or_create_user(name, role) returns
user_db(name) == SetMin({ i \in 1..Len(users') : users'[i].name = name })

\* --------------------------------------------------------- the entry point
Closed == { i \in 1..Len(loans) : loans[i].return_date # None }

\* user.can_borrow() of the object the login made: Admin.can_borrow returns
\* False, Member.can_borrow counts the member's open rows
user_can_borrow ==
    IF user.role = "Admin" THEN FALSE
    ELSE IF user.role = "Member" THEN can_borrow(user.user_id)
    ELSE FALSE

Init ==
    /\ books = <<>>
    /\ users = <<>>
    /\ loans = <<>>
    /\ clock = 0
    /\ committed = <<books, users, loans>>
    /\ pc = "login"
    /\ user = NoUser
    /\ call = NoCall
    /\ msg = MsgNone
    /\ trip = None

\* The login loop: a choice other than "1" and "2" is asked again.
LoginInvalid ==
    /\ pc = "login"
    /\ \E pilihan \in ChoiceInputs \ {"1", "2"} : msg' = MsgLoginInvalid
    /\ UNCHANGED <<books, users, loans, clock, committed, pc, user, call, trip>>

\* pilihan == "1": get_or_create_user(session, nama, "Admin"); user = Admin()
LoginAdmin(B) ==
    /\ pc = "login"
    /\ UNCHANGED <<books, loans, clock, trip>>
    /\ \E input \in B.names :
        LET nama == Strip(input)
        IN /\ get_or_create_user(nama, "Admin")
           /\ call' = [op |-> "get_or_create_user", name |-> nama, role |-> "Admin",
                       id |-> user_db(nama)]
    /\ user' = [role |-> "Admin"]
    /\ pc' = "menu"
    /\ msg' = MsgNone

\* pilihan == "2": get_or_create_user(session, nama, "Member");
\* user = Member(user_id=user_db.id)
LoginMember(B) ==
    /\ pc = "login"
    /\ UNCHANGED <<books, loans, clock, trip>>
    /\ \E input \in B.names :
        LET nama == Strip(input)
        IN /\ get_or_create_user(nama, "Member")
           /\ call' = [op |-> "get_or_create_user", name |-> nama, role |-> "Member",
                       id |-> user_db(nama)]
           /\ user' = [role |-> "Member", user_id |-> user_db(nama)]
    /\ pc' = "menu"
    /\ msg' = MsgNone

\* The new books a profile lets the admin type in: any, or the first of
\* B.order that is not in the catalog.
Addable(B) ==
    IF B.order = <<>> THEN B.titles \X B.authors
    ELSE LET left == { i \in 1..Len(B.order) :
                         BooksTitled(B.order[i][1], B.order[i][2]) = {} }
         IN IF left = {} THEN {} ELSE { B.order[SetMin(left)] }

\* (mutant) the menu does not look at the role
AdminAdd_any_role(B) ==
    /\ pc = "menu"
    /\ UNCHANGED <<users, loans, clock, pc, user>>
    /\ trip' = None
    /\ \E judul \in B.titles, penulis \in B.authors :
        /\ \/ BooksTitled(judul, penulis) # {}
           \/ /\ NextRowId(DOMAIN books) <= B.maxBookId
              /\ <<judul, penulis>> \in Addable(B)
        /\ add_book(judul, penulis)
        /\ call' = [op |-> "add_book", title |-> judul, author |-> penulis]

\* Admin menu "1": the two prompts, then user.add_book(session, judul, penulis)
AdminAdd(B) ==
    /\ pc = "menu" /\ user.role = "Admin"
    /\ UNCHANGED <<users, loans, clock, pc, user>>
    /\ trip' = None
    /\ \E judul \in B.titles, penulis \in B.authors :
        /\ \/ BooksTitled(judul, penulis) # {}
           \/ /\ NextRowId(DOMAIN books) <= B.maxBookId
              /\ <<judul, penulis>> \in Addable(B)
        /\ add_book(judul, penulis)
        /\ call' = [op |-> "add_book", title |-> judul, author |-> penulis]

\* Admin menu "2": enter the id prompt loop
AdminChooseRemove ==
    /\ pc = "menu" /\ user.role = "Admin"
    /\ pc' = "prompt_remove"
    /\ call' = NoCall
    /\ msg' = MsgNone
    /\ trip' = None
    /\ UNCHANGED <<books, users, loans, clock, committed, user>>

\* int(book_id_input) raises ValueError, nothing catches it: the traceback is
\* printed and the process ends without a handler being called
ValueError ==
    /\ pc' = "crashed"
    /\ user' = NoUser
    /\ call' = NoCall
    /\ msg' = MsgValueError
    /\ UNCHANGED <<books, users, loans, clock, committed>>

\* The id prompt of remove: a digit string calls remove_book and leaves the
\* loop, anything else prints the complaint and asks again.
PromptRemove(B) ==
    /\ pc = "prompt_remove"
    /\ trip' = None
    /\ \E book_id_input \in IdInputs(B.removeIds) :
        IF IsDigit(book_id_input)
        THEN IF IntParses(book_id_input)
             THEN /\ UNCHANGED <<users, loans, clock, user>>
                  /\ remove_book(ToInt(book_id_input))
                  /\ call' = [op |-> "remove_book", book_id |-> ToInt(book_id_input)]
                  /\ pc' = "menu"
             ELSE ValueError
        ELSE /\ msg' = MsgIdInvalid
             /\ UNCHANGED <<books, users, loans, clock, committed, user, call, pc>>

\* Member menu "1" / "2": enter the id prompt loop
MemberChooseBorrow ==
    /\ pc = "menu" /\ user.role = "Member"
    /\ pc' = "prompt_borrow"
    /\ call' = NoCall
    /\ msg' = MsgNone
    /\ trip' = None
    /\ UNCHANGED <<books, users, loans, clock, committed, user>>

MemberChooseReturn ==
    /\ pc = "menu" /\ user.role = "Member"
    /\ pc' = "prompt_return"
    /\ call' = NoCall
    /\ msg' = MsgNone
    /\ UNCHANGED <<books, users, loans, clock, committed, user, trip>>

\* History of the last borrow for as long as nothing but its return follows:
\* the tables as they were before it, and whether the return has happened.
BorrowTrip(user_id, book_id) ==
    IF msg' = MsgBorrowOk
    THEN <<[books |-> books, loans |-> loans, user_id |-> user_id,
            book_id |-> book_id, returned |-> FALSE]>>
    ELSE None

ReturnTrip(user_id, book_id) ==
    IF /\ msg' = MsgReturnOk
       /\ trip # None
       /\ ~trip[1].returned
       /\ trip[1].user_id = user_id
       /\ trip[1].book_id = book_id
    THEN <<[trip[1] EXCEPT !.returned = TRUE]>>
    ELSE None

PromptBorrow(B) ==
    /\ pc = "prompt_borrow"
    /\ \E book_id_input \in IdInputs(B.borrowIds) :
        IF IsDigit(book_id_input)
        THEN IF IntParses(book_id_input)
             THEN /\ UNCHANGED <<users, user>>
                  /\ borrow_book(user.user_id, ToInt(book_id_input))
                  /\ call' = [op |-> "borrow_book", book_id |-> ToInt(book_id_input)]
                  /\ pc' = "menu"
                  /\ trip' = BorrowTrip(user.user_id, ToInt(book_id_input))
             ELSE ValueError /\ trip' = None
        ELSE /\ msg' = MsgIdInvalid
             /\ UNCHANGED <<books, users, loans, clock, committed, user, call, pc>>
             /\ trip' = None

\* (a return that would close one row more than the bound is not explored)
PromptReturn(B) ==
    /\ pc = "prompt_return"
    /\ \E book_id_input \in IdInputs(B.returnIds) :
        IF IsDigit(book_id_input)
        THEN IF IntParses(book_id_input)
             THEN /\ \/ OpenLoansOfFor(user.user_id, ToInt(book_id_input)) = {}
                     \/ Cardinality(Closed) < B.maxClosed
                  /\ UNCHANGED <<users, user>>
                  /\ return_book(user.user_id, ToInt(book_id_input))
                  /\ call' = [op |-> "return_book", book_id |-> ToInt(book_id_input)]
                  /\ pc' = "menu"
                  /\ trip' = ReturnTrip(user.user_id, ToInt(book_id_input))
             ELSE ValueError /\ trip' = None
        ELSE /\ msg' = MsgIdInvalid
             /\ UNCHANGED <<books, users, loans, clock, committed, user, call, pc, trip>>

\* Menu "3" of either role: the keyword prompt, a new BookCache loaded from
\* the tables, the search over it, and the listing or the complaint.
Search(B) ==
    /\ pc = "menu"
    /\ \E keyword \in B.keywords :
        LET cache == load_from_db
            results == search(cache, keyword)
        IN /\ call' = [op |-> "search", keyword |-> keyword, results |-> results]
           /\ msg' = IF results # <<>> THEN MsgSearchListed ELSE MsgSearchNone
    /\ trip' = None
    /\ UNCHANGED <<books, users, loans, clock, committed, pc, user>>

\* A menu choice that is no entry of the menu
MenuInvalid ==
    /\ pc = "menu"
    /\ \E menu \in ChoiceInputs \ {"0", "1", "2", "3"} :
        /\ msg' = MsgMenuInvalid
        /\ call' = NoCall
    /\ trip' = None
    /\ UNCHANGED <<books, users, loans, clock, committed, pc, user>>

\* Menu "0": break, session.close() (which drops what the session has not
\* committed), the farewell
Exit ==
    /\ pc = "menu"
    /\ pc' = "exit"
    /\ user' = NoUser
    /\ call' = NoCall
    /\ msg' = MsgBye
    /\ trip' = None
    /\ books' = committed[1]
    /\ users' = committed[2]
    /\ loans' = committed[3]
    /\ UNCHANGED <<clock, committed>>

\* The program is run again over the same library.db
Start ==
    /\ pc \in {"exit", "crashed"}
    /\ pc' = "login"
    /\ msg' = MsgNone
    /\ UNCHANGED <<books, users, loans, clock, committed, user, call, trip>>

NextOf(B) ==
    \/ LoginInvalid
    \/ LoginAdmin(B)
    \/ LoginMember(B)
    \/ AdminAdd(B)
    \/ AdminChooseRemove
    \/ PromptRemove(B)
    \/ MemberChooseBorrow
    \/ MemberChooseReturn
    \/ PromptBorrow(B)
    \/ PromptReturn(B)
    \/ Search(B)
    \/ MenuInvalid
    \/ Exit
    \/ Start

Next == NextOf(General)
Spec == Init /\ [][Next]_vars

NextLimit == NextOf(Limit)
SpecLimit == Init /\ [][NextLimit]_vars

\* The search specification: an admin is at the menu over a catalog of up to
\* MaxCatalog books of SearchShelf, added in any order, and searches.
Catalogs ==
    { c \in UNION { [1..n -> 1..Len(SearchShelf)] : n \in 0..MaxCatalog } :
        \A i \in DOMAIN c, j \in DOMAIN c : c[i] = c[j] => i = j }

InitSearch ==
    /\ \E c \in Catalogs :
          books = [id \in DOMAIN c |->
                     [title |-> SearchShelf[c[id]][1], author |-> SearchShelf[c[id]][2],
                      available |-> TRUE]]
    /\ users = <<[name |-> <<"a">>, role |-> "Admin"]>>
    /\ loans = <<>>
    /\ clock = 0
    /\ committed = <<books, users, loans>>
    /\ pc = "menu"
    /\ user = [role |-> "Admin"]
    /\ call = NoCall
    /\ msg = MsgNone
    /\ trip = None

NextSearch == Search(Searching)
SpecSearch == InitSearch /\ [][NextSearch]_vars

\* ================================================================ the claims
\* The vocabulary of the claims, stated on the tables alone.
IsOpen(r) == r.return_date = <<>>
\* the open rows of ledger L
OpenIn(L) == { i \in 1..Len(L) : IsOpen(L[i]) }
OpenOfUser(L, u) == { i \in OpenIn(L) : L[i].user_id = u }
OpenOfBook(L, b) == { i \in OpenIn(L) : L[i].book_id = b }
OpenOfPair(L, u, b) == { i \in OpenIn(L) : L[i].user_id = u /\ L[i].book_id = b }
ClosedOfPair(L, u, b) ==
    { i \in 1..Len(L) : ~IsOpen(L[i]) /\ L[i].user_id = u /\ L[i].book_id = b }
Borrowers == { loans[i].user_id : i \in 1..Len(loans) }

\* The steps of the entry point that run a handler; the handler's arguments are
\* call' and, for a member, user.user_id.
BorrowStep == pc = "prompt_borrow" /\ pc' = "menu"
ReturnStep == pc = "prompt_return" /\ pc' = "menu"
RemoveStep == pc = "prompt_remove" /\ pc' = "menu"
AddStep == pc = "menu" /\ pc' = "menu" /\ call'.op = "add_book"
LoginStep == pc = "login" /\ pc' = "menu"

\* C1: in every reachable state, a catalog book is available if and only if no
\* open loan row references it.
C1_AvailableIffNoOpenLoan ==
    \A b \in DOMAIN books : books[b].available <=> OpenOfBook(loans, b) = {}

\* C1 witness: one book is out on an open loan while another one is back on the
\* shelf after having been borrowed and returned.
C1_Witness ==
    \E b1 \in DOMAIN books, b2 \in DOMAIN books :
        /\ ~books[b1].available /\ OpenOfBook(loans, b1) # {}
        /\ books[b2].available
        /\ \E i \in 1..Len(loans) : loans[i].book_id = b2 /\ ~IsOpen(loans[i])

\* C2: in every reachable state no user id has more than 3 open loan rows.
C2_AtMostThreeOpen ==
    \A u \in Borrowers : Cardinality(OpenOfUser(loans, u)) <= 3

\* C2 witness: a member holding 3 open loans has just asked for a fourth book
\* that is in the catalog and available.
C2_Witness ==
    /\ pc = "menu" /\ user.role = "Member" /\ call.op = "borrow_book"
    /\ Cardinality(OpenOfUser(loans, user.user_id)) = 3
    /\ call.book_id \in DOMAIN books /\ books[call.book_id].available

\* C3: at most one open loan row per (user, book) pair, and a borrow of a book
\* by the user who already holds it is rejected and adds no row.
C3_OnePerPair ==
    \A i \in OpenIn(loans), j \in OpenIn(loans) :
        (loans[i].user_id = loans[j].user_id /\ loans[i].book_id = loans[j].book_id)
            => i = j

C3_HolderRejected ==
    (BorrowStep /\ OpenOfPair(loans, user.user_id, call'.book_id) # {})
        => (loans' = loans /\ msg' \in {MsgBorrowMax, MsgBorrowUnavailable})

C3_OneOpenLoanPerPair == []C3_OnePerPair /\ [][C3_HolderRejected]_vars

\* C3 witness: a member has just asked again for a book they hold and was
\* turned down.
C3_Witness ==
    /\ pc = "menu" /\ user.role = "Member" /\ call.op = "borrow_book"
    /\ OpenOfPair(loans, user.user_id, call.book_id) # {}
    /\ msg = MsgBorrowUnavailable

\* C4: a borrow whose precondition fails (3 open loans already, or the book is
\* missing, or the book is not available) changes no table and reports one of
\* the two failure reasons.
BorrowPreconditionFails(u, b) ==
    \/ Cardinality(OpenOfUser(loans, u)) >= 3
    \/ b \notin DOMAIN books
    \/ ~books[b].available

C4_FailedBorrowIsNoOp ==
    [][(BorrowStep /\ BorrowPreconditionFails(user.user_id, call'.book_id))
        => (/\ UNCHANGED <<books, users, loans>>
            /\ msg' \in {MsgBorrowMax, MsgBorrowUnavailable})]_vars

\* C4 witness: the fourth borrow of a member with 3 open loans, aimed at an
\* available book, was turned down with the max-loans line and the book is still
\* available.
C4_Witness ==
    /\ pc = "menu" /\ user.role = "Member" /\ call.op = "borrow_book"
    /\ msg = MsgBorrowMax
    /\ Cardinality(OpenOfUser(loans, user.user_id)) = 3
    /\ call.book_id \in DOMAIN books /\ books[call.book_id].available
    /\ OpenOfBook(loans, call.book_id) = {}

\* C5: a return with no open row for exactly that (user, book) pair changes no
\* table and reports "no active loan".
C5_UnmatchedReturnIsNoOp ==
    [][(ReturnStep /\ OpenOfPair(loans, user.user_id, call'.book_id) = {})
        => (UNCHANGED <<books, users, loans>> /\ msg' = MsgReturnNone)]_vars

\* C5 witness: a member whose own loan of the book is closed has just tried to
\* return it while another user holds it; the book is still out and the other
\* user's row is still open.
C5_Witness ==
    /\ pc = "menu" /\ user.role = "Member" /\ call.op = "return_book"
    /\ msg = MsgReturnNone
    /\ ClosedOfPair(loans, user.user_id, call.book_id) # {}
    /\ \E i \in OpenOfBook(loans, call.book_id) : loans[i].user_id # user.user_id
    /\ call.book_id \in DOMAIN books /\ ~books[call.book_id].available

\* C6: a remove of a missing or unavailable book changes no table, and no step
\* takes a book that an open loan row references out of the catalog.
C6_OpenBooksInCatalog ==
    \A i \in OpenIn(loans) : loans[i].book_id \in DOMAIN books

C6_RejectedRemove ==
    /\ (RemoveStep /\ (\/ call'.book_id \notin DOMAIN books
                       \/ ~books[call'.book_id].available))
          => (/\ UNCHANGED <<books, users, loans>>
              /\ msg' \in {MsgRemoveLoaned, MsgRemoveMissing})
    /\ \A i \in OpenIn(loans) :
          loans[i].book_id \in DOMAIN books => loans[i].book_id \in DOMAIN books'

C6_LoanedBookNotRemoved == []C6_OpenBooksInCatalog /\ [][C6_RejectedRemove]_vars

\* C6 witness: the admin has just tried to remove a book that is out on loan and
\* the book is still in the catalog.
C6_Witness ==
    /\ pc = "menu" /\ user.role = "Admin" /\ call.op = "remove_book"
    /\ msg = MsgRemoveLoaned
    /\ call.book_id \in DOMAIN books
    /\ OpenOfBook(loans, call.book_id) # {}

\* C7: add of an existing (title, author) pair reports the duplicate and leaves
\* the catalog as it is; any other add puts exactly one new, available book in
\* it; so no two catalog books ever share (title, author).
C7_NoDuplicateBooks ==
    \A b1 \in DOMAIN books, b2 \in DOMAIN books :
        (books[b1].title = books[b2].title /\ books[b1].author = books[b2].author)
            => b1 = b2

C7_AddEffect ==
    AddStep =>
        IF \E b \in DOMAIN books :
              books[b].title = call'.title /\ books[b].author = call'.author
        THEN books' = books /\ msg' = MsgAddDup
        ELSE /\ msg' = MsgAddOk
             /\ \E id \in DOMAIN books' \ DOMAIN books :
                  /\ DOMAIN books' = DOMAIN books \cup {id}
                  /\ books'[id] = [title |-> call'.title, author |-> call'.author,
                                   available |-> TRUE]
                  /\ \A b \in DOMAIN books : books'[b] = books[b]

C7_AddRejectsDuplicates == []C7_NoDuplicateBooks /\ [][C7_AddEffect]_vars

\* C7 witness: the same title and author were added twice; the second add
\* reported the duplicate and the catalog still holds one book.
C7_Witness ==
    /\ pc = "menu" /\ user.role = "Admin" /\ call.op = "add_book"
    /\ msg = MsgAddDup
    /\ Cardinality(DOMAIN books) = 1
    /\ \E b \in DOMAIN books :
          books[b].title = call.title /\ books[b].author = call.author

\* C8: no step removes a loan row or changes its user, book or loan date, and
\* a row whose return date is set is never changed again.
C8_LedgerOneWay ==
    [][/\ Len(loans') >= Len(loans)
       /\ \A i \in 1..Len(loans) :
            /\ loans'[i].user_id = loans[i].user_id
            /\ loans'[i].book_id = loans[i].book_id
            /\ loans'[i].loan_date = loans[i].loan_date
            /\ ~IsOpen(loans[i]) => loans'[i] = loans[i]]_vars

\* C8 witness: a member with a closed loan of a book and no open one has just
\* called return for that book again; the return found nothing.
C8_Witness ==
    /\ pc = "menu" /\ user.role = "Member" /\ call.op = "return_book"
    /\ ClosedOfPair(loans, user.user_id, call.book_id) # {}
    /\ OpenOfPair(loans, user.user_id, call.book_id) = {}
    /\ msg = MsgReturnNone

\* C9: a successful borrow appends exactly one open row for (user, book) and
\* makes that book unavailable; a successful return closes exactly one open row
\* of (user, book) and makes that book available; neither changes another row,
\* another book, the set of catalog books or the users.
C9_BorrowEffect ==
    (BorrowStep /\ ~BorrowPreconditionFails(user.user_id, call'.book_id)) =>
        /\ Len(loans') = Len(loans) + 1
        /\ SubSeq(loans', 1, Len(loans)) = loans
        /\ loans'[Len(loans')].user_id = user.user_id
        /\ loans'[Len(loans')].book_id = call'.book_id
        /\ IsOpen(loans'[Len(loans')])
        /\ books' = [books EXCEPT ![call'.book_id].available = FALSE]
        /\ users' = users
        /\ msg' = MsgBorrowOk

C9_ReturnEffect ==
    (ReturnStep /\ OpenOfPair(loans, user.user_id, call'.book_id) # {}) =>
        /\ Len(loans') = Len(loans)
        /\ \E i \in OpenOfPair(loans, user.user_id, call'.book_id) :
              /\ ~IsOpen(loans'[i])
              /\ loans'[i].user_id = loans[i].user_id
              /\ loans'[i].book_id = loans[i].book_id
              /\ loans'[i].loan_date = loans[i].loan_date
              /\ \A j \in 1..Len(loans) : j # i => loans'[j] = loans[j]
        /\ call'.book_id \in DOMAIN books
        /\ books' = [books EXCEPT ![call'.book_id].available = TRUE]
        /\ users' = users
        /\ msg' = MsgReturnOk

C9_SuccessEffects == [][C9_BorrowEffect /\ C9_ReturnEffect]_vars

\* C9 witness: a member holding two books has just returned one of them; the
\* other loan is still open and its book still out.
C9_Witness ==
    /\ pc = "menu" /\ user.role = "Member" /\ call.op = "return_book"
    /\ msg = MsgReturnOk
    /\ ClosedOfPair(loans, user.user_id, call.book_id) # {}
    /\ books[call.book_id].available
    /\ \E i \in OpenOfUser(loans, user.user_id) :
          /\ loans[i].book_id # call.book_id
          /\ ~books[loans[i].book_id].available

\* C10: names in the users table are unique; no step changes or removes a
\* users row; a login returns the row of that name if there is one and creates
\* nothing, and appends a row with the chosen role only if there is none; no
\* other step adds a row.
C10_NamesUnique ==
    \A i \in 1..Len(users), j \in 1..Len(users) :
        users[i].name = users[j].name => i = j

C10_UsersStep ==
    /\ Len(users') >= Len(users)
    /\ \A i \in 1..Len(users) : users'[i] = users[i]
    /\ ~LoginStep => users' = users
    /\ LoginStep =>
          IF \E i \in 1..Len(users) : users[i].name = call'.name
          THEN /\ users' = users
               /\ users[call'.id].name = call'.name
          ELSE /\ users' = Append(users, [name |-> call'.name, role |-> call'.role])
               /\ call'.id = Len(users')

C10_UsersUniqueAndFixed == []C10_NamesUnique /\ [][C10_UsersStep]_vars

\* C10 witness: a name created under one role has just logged in choosing the
\* other role; the stored row still has the first role.
C10_Witness ==
    /\ pc = "menu" /\ call.op = "get_or_create_user"
    /\ users[call.id].name = call.name
    /\ users[call.id].role # call.role
    /\ Len(users) = 1

\* C11: the role chosen at login gates the operations. In an Admin session
\* can_borrow is false and no step creates or closes a loan row or changes the
\* availability flag of a book; in a Member session no step adds a book to the
\* catalog or removes one from it.
SameFlags ==
    \A b \in DOMAIN books \cap DOMAIN books' :
        books'[b].available = books[b].available

SameCatalog ==
    /\ DOMAIN books' = DOMAIN books
    /\ \A b \in DOMAIN books :
          books'[b].title = books[b].title /\ books'[b].author = books[b].author

C11_AdminCannotBorrow == user.role = "Admin" => ~user_can_borrow

C11_SessionStep ==
    /\ user.role = "Admin" => (loans' = loans /\ SameFlags)
    /\ user.role = "Member" => SameCatalog

C11_RoleGating == []C11_AdminCannotBorrow /\ [][C11_SessionStep]_vars

\* C11 witness: an admin has just removed a book while another book is out on
\* an open loan of a member.
C11_Witness ==
    /\ pc = "menu" /\ user.role = "Admin"
    /\ call.op = "remove_book" /\ msg = MsgRemoveOk
    /\ OpenIn(loans) # {}
    /\ \E b \in DOMAIN books : ~books[b].available

\* C12: a search returns exactly the books of the snapshot whose title or
\* author contains the keyword as a substring, letters compared without regard
\* to case, in snapshot order: every row returned is a row of the catalog, the
\* rows are in ascending id order, every row returned matches, and no matching
\* book is left out (so nothing is returned when nothing matches).
SameLetter(c, d) ==
    \/ c = d
    \/ <<c, d>> \in CasePairs
    \/ <<d, c>> \in CasePairs
    \/ {c, d} \subseteq {CapitalSigma, SmallSigma, FinalSigma}

ContainsIgnoringCase(k, t) ==
    \E i \in 0..(Len(t) - Len(k)) :
        \A j \in 1..Len(k) : SameLetter(k[j], t[i + j])

Matches(k, b) ==
    ContainsIgnoringCase(k, b.title) \/ ContainsIgnoringCase(k, b.author)

C12_SearchReturnsMatches ==
    call.op = "search" =>
        LET results == call.results
        IN /\ \A i \in 1..Len(results) :
                /\ results[i].id \in DOMAIN books
                /\ results[i].title = books[results[i].id].title
                /\ results[i].author = books[results[i].id].author
                /\ results[i].available = books[results[i].id].available
                /\ Matches(call.keyword, results[i])
           /\ \A i \in 1..Len(results), j \in 1..Len(results) :
                i < j => results[i].id < results[j].id
           /\ \A b \in DOMAIN books :
                Matches(call.keyword, books[b])
                    => \E i \in 1..Len(results) : results[i].id = b

\* C12, the rest of the claim: a search changes no table.
C12_SearchChangesNoStore ==
    [][(pc = "menu" /\ call'.op = "search")
        => UNCHANGED <<books, users, loans, committed>>]_vars

\* C12, the example of the claim: the keyword "king" over the three books of
\* the example returns all three, in their order.
C12_KingExample ==
    ( /\ call.op = "search"
      /\ call.keyword = <<"k", "i", "n", "g">>
      /\ DOMAIN books = 1..3
      /\ \A id \in 1..3 : <<books[id].title, books[id].author>> = SearchShelf[id] )
        => [i \in 1..Len(call.results) |-> call.results[i].id] = <<1, 2, 3>>

\* C13: every search issued from a menu reflects the catalog as it is when the
\* search is issued: each row returned is a book of the catalog at that moment
\* with its current title, author and availability (a removed book is never
\* returned), and every book then in the catalog that matches the keyword is
\* returned (a book added earlier is visible).
C13_SearchSeesCurrentCatalog ==
    [][(pc = "menu" /\ call'.op = "search")
        => /\ \A i \in 1..Len(call'.results) :
                /\ call'.results[i].id \in DOMAIN books
                /\ [title |-> call'.results[i].title,
                    author |-> call'.results[i].author,
                    available |-> call'.results[i].available]
                       = books[call'.results[i].id]
           /\ \A b \in DOMAIN books :
                Matches(call'.keyword, books[b])
                    => \E i \in 1..Len(call'.results) : call'.results[i].id = b]_vars

\* C13 witness: book 1 was removed, book 2 was added and is out on loan; a
\* search has just listed book 2 as not available and nothing else.
C13_Witness ==
    /\ pc = "menu" /\ call.op = "search"
    /\ DOMAIN books = {2}
    /\ Len(call.results) = 1
    /\ call.results[1].id = 2 /\ ~call.results[1].available

\* C14: for a member, can_borrow is true if and only if the member has fewer
\* than 3 open loan rows in the tables as the operations so far have left
\* them; the rows can_borrow reads through its own session are the rows the
\* calling session has written; and a borrow is turned down for the limit
\* exactly when that count is 3 or more.
C14_CountIsCurrent ==
    /\ committed[3] = loans
    /\ user.role = "Member"
          => (user_can_borrow <=> Cardinality(OpenOfUser(loans, user.user_id)) < 3)

C14_BorrowFollowsCount ==
    BorrowStep
        => (msg' = MsgBorrowMax <=> Cardinality(OpenOfUser(loans, user.user_id)) >= 3)

C14_CanBorrowIffUnderLimit == []C14_CountIsCurrent /\ [][C14_BorrowFollowsCount]_vars

\* C14 witness: a member who had 3 open loans returned one and has just
\* borrowed again, which brings the count back to 3.
C14_Witness ==
    /\ pc = "menu" /\ user.role = "Member"
    /\ call.op = "borrow_book" /\ msg = MsgBorrowOk
    /\ Cardinality(OpenOfUser(loans, user.user_id)) = 3
    /\ \E i \in 1..Len(loans) : loans[i].user_id = user.user_id /\ ~IsOpen(loans[i])
    /\ ~user_can_borrow

\* C15: no loan row references a user whose stored role is Admin, whatever
\* the logins and operations were.
C15_NoLoanOfAdmin ==
    \A i \in 1..Len(loans) :
        loans[i].user_id \in 1..Len(users) => users[loans[i].user_id].role # "Admin"

\* C16: referential integrity of the ledger: in every reachable state every
\* loan row, open or closed, references a row of users and a book of the
\* catalog.
C16_LedgerReferencesExist ==
    \A i \in 1..Len(loans) :
        /\ loans[i].user_id \in 1..Len(users)
        /\ loans[i].book_id \in DOMAIN books

\* C17: a successful borrow of book b by user u that is immediately followed
\* by u's return of b is a round trip: the catalog with every availability
\* flag and every user's number of open loans are as before the borrow, the
\* ledger is the ledger of before plus one closed row of (u, b), and b is
\* available again; and a borrow of an available book by a member with fewer
\* than 3 open loans succeeds.
C17_BackWhereItWas ==
    (trip # <<>> /\ trip[1].returned) =>
        LET before == trip[1]
        IN /\ books = before.books
           /\ \A u \in 1..Len(users) :
                Cardinality(OpenOfUser(loans, u))
                    = Cardinality(OpenOfUser(before.loans, u))
           /\ Len(loans) = Len(before.loans) + 1
           /\ \A i \in 1..Len(before.loans) : loans[i] = before.loans[i]
           /\ loans[Len(loans)].user_id = before.user_id
           /\ loans[Len(loans)].book_id = before.book_id
           /\ ~IsOpen(loans[Len(loans)])
           /\ before.book_id \in DOMAIN books
           /\ books[before.book_id].available

C17_BorrowableAgain ==
    (BorrowStep /\ ~BorrowPreconditionFails(user.user_id, call'.book_id))
        => /\ msg' = MsgBorrowOk
           /\ OpenOfPair(loans', user.user_id, call'.book_id) # {}

C17_BorrowReturnRoundTrip == []C17_BackWhereItWas /\ [][C17_BorrowableAgain]_vars

\* C17 witness: a member has just returned the book borrowed one operation
\* earlier, while another book is out on an open loan.
C17_Witness ==
    /\ pc = "menu" /\ call.op = "return_book" /\ msg = MsgReturnOk
    /\ trip # <<>> /\ trip[1].returned
    /\ trip[1].book_id = call.book_id
    /\ OpenIn(loans) # {}

\* C18: borrow tests the loan limit before the book: a member with 3 open
\* loans is turned down with the max-loans reason whether the requested book
\* is missing, on loan or available, and the "unavailable or missing" reason
\* is given only to a member with fewer than 3 open loans, for a book that is
\* missing or on loan.
C18_LimitBeforeBook ==
    [][BorrowStep =>
        LET open == Cardinality(OpenOfUser(loans, user.user_id))
            b == call'.book_id
        IN /\ open >= 3 => msg' = MsgBorrowMax
           /\ msg' = MsgBorrowUnavailable
                => (open < 3 /\ (b \notin DOMAIN books \/ ~books[b].available))]_vars

\* C18 witness: a member with 3 open loans has just asked for an id that is
\* not in the catalog and was told about the limit.
C18_Witness ==
    /\ pc = "menu" /\ user.role = "Member" /\ call.op = "borrow_book"
    /\ msg = MsgBorrowMax
    /\ Cardinality(OpenOfUser(loans, user.user_id)) = 3
    /\ call.book_id \notin DOMAIN books

\* C19: at a book-id prompt every input either is turned down, and then the
\* same prompt is shown again with every table unchanged, or is a number, and
\* then the handler of that prompt is called once and the menu is back; a menu
\* choice that is no entry changes nothing; menu "0" ends the session and
\* calls no handler.
PromptHandler ==
    IF pc = "prompt_remove" THEN "remove_book"
    ELSE IF pc = "prompt_borrow" THEN "borrow_book"
    ELSE "return_book"

C19_PromptStep ==
    pc \in {"prompt_remove", "prompt_borrow", "prompt_return"}
        => \/ /\ pc' = pc
              /\ msg' = MsgIdInvalid
              /\ call' = call
              /\ UNCHANGED <<books, users, loans, committed>>
           \/ /\ pc' = "menu"
              /\ call'.op = PromptHandler

C19_MenuStep ==
    (pc = "menu" /\ msg' = MsgMenuInvalid)
        => (pc' = pc /\ call' = NoCall /\ UNCHANGED <<books, users, loans, committed, user>>)

C19_ExitStep ==
    (pc = "menu" /\ pc' = "exit")
        => (call' = NoCall /\ msg' = MsgBye /\ UNCHANGED <<books, users, loans, committed>>)

C19_IdPromptLoop == [][C19_PromptStep /\ C19_MenuStep /\ C19_ExitStep]_vars

====
